---------------------------- MODULE Spec2Model ----------------------------
(***************************************************************************)
(* A model of create_chapter1_epub.py: the EPUB pipeline that reads the    *)
(* HTML chapters of book/, fetches their images into the staging           *)
(* directory epub-output/, writes the content documents, the manifest, the *)
(* spine and the navigation file, and zips the staging directory.          *)
(*                                                                         *)
(* Text is modelled as sequences of one-character strings wherever the     *)
(* code inspects or rewrites characters (titles, alt texts, file names in  *)
(* the title extractor); paths, ids and hrefs the code only formats are    *)
(* strings built with \o.                                                  *)
(***************************************************************************)
EXTENDS Naturals, Integers, Sequences, FiniteSets, TLC

(***************************************************************************)
(* Bounds of the model.                                                    *)
(***************************************************************************)
MaxChapters == 2

(***************************************************************************)
(* Characters.                                                             *)
(***************************************************************************)
UpperChars ==
    <<"A", "B", "C", "D", "E", "F", "G", "H", "I", "J", "K", "L", "M",
      "N", "O", "P", "Q", "R", "S", "T", "U", "V", "W", "X", "Y", "Z">>
LowerChars ==
    <<"a", "b", "c", "d", "e", "f", "g", "h", "i", "j", "k", "l", "m",
      "n", "o", "p", "q", "r", "s", "t", "u", "v", "w", "x", "y", "z">>
Digits == {"0", "1", "2", "3", "4", "5", "6", "7", "8", "9"}
Whitespace == {" ", "\t", "\n"}

Range(s) == {s[j] : j \in 1..Len(s)}

\* str.lower() on one character
LowerChar(c) ==
    IF \E j \in 1..Len(UpperChars) : UpperChars[j] = c
    THEN LowerChars[CHOOSE j \in 1..Len(UpperChars) : UpperChars[j] = c]
    ELSE c

\* str.upper() on one character
UpperChar(c) ==
    IF \E j \in 1..Len(LowerChars) : LowerChars[j] = c
    THEN UpperChars[CHOOSE j \in 1..Len(LowerChars) : LowerChars[j] = c]
    ELSE c

\* str.lower()
Lower(s) == [j \in 1..Len(s) |-> LowerChar(s[j])]

\* the characters matched by the class [a-z0-9]
IsLowerAlnum(c) == c \in Range(LowerChars) \cup Digits

\* a sequence of characters as one string
RECURSIVE Str(_)
Str(s) == IF s = <<>> THEN "" ELSE s[1] \o Str(Tail(s))

\* str.replace(old, new) for one-character old and new
Replace(s, old, new) == [j \in 1..Len(s) |-> IF s[j] = old THEN new ELSE s[j]]

\* str.strip(), str.lstrip(), str.rstrip()
RECURSIVE LStrip(_)
LStrip(s) ==
    IF s # <<>> /\ s[1] \in Whitespace THEN LStrip(Tail(s)) ELSE s

RECURSIVE RStrip(_)
RStrip(s) ==
    IF s # <<>> /\ s[Len(s)] \in Whitespace
    THEN RStrip(SubSeq(s, 1, Len(s) - 1))
    ELSE s

Strip(s) == LStrip(RStrip(s))

Reverse(s) == [j \in 1..Len(s) |-> s[Len(s) + 1 - j]]

\* a set as a sequence, in some fixed order
RECURSIVE SetToSeq(_)
SetToSeq(S) ==
    IF S = {} THEN <<>>
    ELSE LET x == CHOOSE x \in S : TRUE IN <<x>> \o SetToSeq(S \ {x})

\* the orders in which a directory listing may return the names S
AllOrders(S) ==
    {f \in [1..Cardinality(S) -> S] : \A a, b \in 1..Cardinality(S) : f[a] = f[b] => a = b}

\* two of the orders in which a directory walk may return the entries S
WalkOrders(S) == {SetToSeq(S), Reverse(SetToSeq(S))}


(***************************************************************************)
(* Image references and file names.                                        *)
(***************************************************************************)
UPSTREAM_HOST == "bio.libretexts.org"
AllowedExts == {".jpg", ".jpeg", ".png", ".gif", ".svg"}
SlugLimit == 50

\* the text of an img element's src attribute
SrcText(src) ==
    CASE src.form = "absolute" -> "https://" \o src.host \o src.path \o src.ext
      [] src.form = "protocol-relative" -> "//" \o src.host \o src.path \o src.ext
      [] OTHER -> src.path \o src.ext

\* extract_image_urls: the URL an img element's src is fetched from
NormalizeSrc(src) ==
    CASE src.form = "absolute" ->
           [scheme |-> "https:", host |-> src.host, path |-> src.path, ext |-> src.ext]
      [] src.form = "protocol-relative" ->
           [scheme |-> "https:", host |-> src.host, path |-> src.path, ext |-> src.ext]
      [] src.form = "root-relative" ->
           [scheme |-> "https:", host |-> UPSTREAM_HOST, path |-> src.path, ext |-> src.ext]
      [] OTHER ->
           [scheme |-> "", host |-> "", path |-> src.path, ext |-> src.ext]

UrlText(url) ==
    IF url.scheme = "" THEN url.path \o url.ext
    ELSE url.scheme \o "//" \o url.host \o url.path \o url.ext

extract_image_urls(imgs) ==
    [j \in 1..Len(imgs) |->
        [url |-> NormalizeSrc(imgs[j].src), alt |-> imgs[j].alt, tag |-> j]]

\* urllib.parse.urlparse raises ValueError on a netloc with an unmatched bracket
BracketHosts == {"[x"}
UrlparseRaises(url) == url.host \in BracketHosts

\* re.sub(r'[^a-z0-9]+', '-', s): every run of other characters becomes one hyphen
RECURSIVE SubNonAlnum(_)
SubNonAlnum(s) ==
    IF s = <<>> THEN <<>>
    ELSE IF IsLowerAlnum(s[1]) THEN <<s[1]>> \o SubNonAlnum(Tail(s))
    ELSE IF Len(s) > 1 /\ ~IsLowerAlnum(s[2]) THEN SubNonAlnum(Tail(s))
    ELSE <<"-">> \o SubNonAlnum(Tail(s))

Truncate(s, n) == SubSeq(s, 1, IF Len(s) < n THEN Len(s) ELSE n)

\* hashlib.md5(url).hexdigest()[:16], as a digest that differs for different URLs
Md5Hex16(url) == "md5:" \o UrlText(url)

\* the extension a local filename gets: the URL path's, or .jpg
SafeExt(url) == IF url.ext \in AllowedExts THEN url.ext ELSE ".jpg"

\* get_safe_filename naming every image by its URL's digest
get_safe_filename_by_digest(url, alt) == Md5Hex16(url) \o SafeExt(url)

get_safe_filename(url, alt) ==
    LET ext == SafeExt(url)
        base == IF alt # <<>>
                THEN Str(Truncate(SubNonAlnum(Lower(alt)), SlugLimit))
                ELSE Md5Hex16(url)
    IN  base \o ext

\* the section id of a chapter in the combined document and in its navigation entry
SectionId(title) == Str(Replace(Replace(Lower(title), " ", "-"), ".", "-"))

(***************************************************************************)
(* The inputs the model draws from.                                        *)
(***************************************************************************)
Titles == {<<"1", ".", "1", " ", "A">>, <<"C">>}

ImgLeafA ==
    [src |-> [form |-> "absolute", host |-> "cdn", path |-> "/a", ext |-> ".png"],
     alt |-> <<"L", "e", "a", "f">>]
ImgLeafB ==
    [src |-> [form |-> "protocol-relative", host |-> "cdn", path |-> "/b", ext |-> ".png"],
     alt |-> <<"l", "e", "a", "f">>]
ImgNoAlt ==
    [src |-> [form |-> "root-relative", host |-> "", path |-> "/c", ext |-> ".gif"],
     alt |-> <<>>]
ImgBadUrl ==
    [src |-> [form |-> "absolute", host |-> "[x", path |-> "/d", ext |-> ".png"],
     alt |-> <<>>]

\* the img elements of a chapter's content, in document order
ImageLists == {<<>>, <<ImgLeafA, ImgLeafB>>, <<ImgNoAlt, ImgBadUrl>>}

\* the img elements the naming of images is examined on: two paths, with an
\* allowed extension, another allowed one, and none, under three alt texts
NameAlts == {<<>>, <<"L", "e", "a", "f">>, <<"A", " ", "b">>}

NameRefs ==
    {[src |-> [form |-> f, host |-> "cdn", path |-> p, ext |-> e], alt |-> a] :
        f \in {"absolute", "protocol-relative"}, p \in {"/a", "/b"},
        e \in {".png", ".jpg", ""}, a \in NameAlts}

\* the chapters with two img elements
NamePairs == {<<r1, r2>> : r1 \in NameRefs, r2 \in NameRefs}

\* what main finds at book/<html_file> when it reaches the entry
BookFiles ==
    {[kind |-> "missing", imgs |-> <<>>], [kind |-> "undecodable", imgs |-> <<>>]}
    \cup {[kind |-> "ok", imgs |-> l] : l \in ImageLists}

HtmlName(n) == "f" \o ToString(n) \o ".html"

\* the (basename, title) lists that discovery or the --files patterns can resolve
ResolvedLists ==
    UNION {{[j \in 1..n |-> [html_file |-> HtmlName(j), title |-> t[j]]] :
              t \in [1..n -> Titles]} : n \in 0..MaxChapters}

(***************************************************************************)
(* The staging directory epub-output/ and the archive.                     *)
(***************************************************************************)
ROOT_DIR == ""
META_DIR == "META-INF"
OEBPS_DIR == "OEBPS"
IMAGES_DIR == "OEBPS/images"
ChapterFile(n) == "chapter" \o ToString(n) \o ".xhtml"

\* a file of the staging directory: fresh is TRUE when this run wrote it,
\* origin is the URL an image's bytes came from, body the sections of a
\* content document
File(dir, name, origin, body) ==
    [dir |-> dir, name |-> name, fresh |-> TRUE, origin |-> origin, body |-> body]

StaleFile(dir, name) ==
    [dir |-> dir, name |-> name, fresh |-> FALSE, origin |-> "", body |-> <<>>]

\* os.path.relpath(file_path, OUTPUT_DIR)
RelPath(f) == IF f.dir = ROOT_DIR THEN f.name ELSE f.dir \o "/" \o f.name

\* open(path, 'w') and write: the file replaces what was at the path
WriteFile(d, f) == {g \in d : ~(g.dir = f.dir /\ g.name = f.name)} \cup {f}

\* os.listdir(dir), as a set of names
ListDir(d, dir) == {g.name : g \in {h \in d : h.dir = dir}}

\* what an earlier run may have left in the staging directory
StaleStaging ==
    {StaleFile(ROOT_DIR, "mimetype"), StaleFile(META_DIR, "container.xml"),
     StaleFile(OEBPS_DIR, "styles.css"), StaleFile(OEBPS_DIR, "content.opf"),
     StaleFile(OEBPS_DIR, "toc.ncx"), StaleFile(OEBPS_DIR, ChapterFile(1)),
     StaleFile(IMAGES_DIR, "old.png")}

\* the archive an earlier run may have left at the target path
StaleArchive == <<[name |-> "OEBPS/old.xhtml", stored |-> FALSE, fresh |-> FALSE]>>

(***************************************************************************)
(* extract_title_from_html.                                                *)
(***************************************************************************)
\* the texts of the model, character by character
LIBRETEXTS ==
    <<"L", "i", "b", "r", "e", "T", "e", "x", "t", "s">>
BOTANY ==
    <<"B", "o", "t", "a", "n", "y">>
T_CELLS_BOTANY ==
    <<"C", "e", "l", "l", "s", " ", "-", " ", "B", "o", "t", "a", "n", "y">>
T_ONLY_BRAND ==
    <<"-", " ", "L", "i", "b", "r", "e", "T", "e", "x", "t", "s">>
T_INTRO_PADDED ==
    <<" ", "I", "n", "t", "r", "o", " ">>
T_CELLS ==
    <<"C", "e", "l", "l", "s">>
F_INTRO_TO_CELLS ==
    <<"i", "n", "t", "r", "o", "-", "t", "o", "-", "c", "e", "l", "l", "s", ".", "h", "t", "m", "l">>
F_NUMBERED ==
    <<"1", ".", "1", "_", "i", "n", "t", "r", "o", ".", "h", "t", "m", "l">>
F_LEADING_SEP ==
    <<"-", "a", ".", "h", "t", "m", "l">>

Brands == {LIBRETEXTS, BOTANY}

\* whether word occurs in s at position p
HasWordAt(s, p, word) ==
    /\ p + Len(word) - 1 <= Len(s)
    /\ \A j \in 1..Len(word) : s[p + j - 1] = word[j]

\* whether \s*[-|]\s*(LibreTexts|Botany).*$ matches s from position p
SuffixAt(s, p) ==
    \E a \in p..Len(s) :
        /\ \A j \in p..(a - 1) : s[j] \in Whitespace
        /\ s[a] \in {"-", "|"}
        /\ \E b \in (a + 1)..Len(s) :
               /\ \A j \in (a + 1)..(b - 1) : s[j] \in Whitespace
               /\ \E word \in Brands :
                      /\ HasWordAt(s, b, word)
                      /\ \A j \in (b + Len(word))..Len(s) : s[j] # "\n"

\* re.sub(r'\s*[-|]\s*(LibreTexts|Botany).*$', '', s): the leftmost match is removed
StripSuffix(s) ==
    IF \E p \in 1..Len(s) : SuffixAt(s, p)
    THEN LET p == CHOOSE p \in 1..Len(s) :
                      SuffixAt(s, p) /\ \A q \in 1..(p - 1) : ~SuffixAt(s, q)
         IN  SubSeq(s, 1, p - 1)
    ELSE s

\* os.path.splitext(basename)[0]
SplitExtRoot(s) ==
    LET dots == {j \in 1..Len(s) : s[j] = "."}
    IN  IF dots = {} THEN s
        ELSE LET last == CHOOSE j \in dots : \A k \in dots : k <= j
             IN  IF \E j \in 1..(last - 1) : s[j] # "."
                 THEN SubSeq(s, 1, last - 1)
                 ELSE s

\* str.split(): the words between runs of whitespace
RECURSIVE Split(_)
Split(s) ==
    LET t == LStrip(s)
    IN  IF t = <<>> THEN <<>>
        ELSE LET stops == {j \in 1..Len(t) : t[j] \in Whitespace}
                 n == IF stops = {} THEN Len(t)
                      ELSE (CHOOSE j \in stops : \A k \in stops : j <= k) - 1
             IN  <<SubSeq(t, 1, n)>> \o Split(SubSeq(t, n + 1, Len(t)))

\* str.capitalize()
Capitalize(w) ==
    [j \in 1..Len(w) |-> IF j = 1 THEN UpperChar(w[j]) ELSE LowerChar(w[j])]

\* ' '.join(words)
RECURSIVE JoinWords(_)
JoinWords(ws) ==
    IF ws = <<>> THEN <<>>
    ELSE IF Len(ws) = 1 THEN ws[1]
    ELSE ws[1] \o <<" ">> \o JoinWords(Tail(ws))

SeparatorsToSpaces(s) == Replace(Replace(s, "-", " "), "_", " ")

\* the title made from the file name, lines 95-99
FilenameTitle(basename) ==
    LET words == Split(SeparatorsToSpaces(SplitExtRoot(basename)))
    IN  JoinWords([j \in 1..Len(words) |-> Capitalize(words[j])])

\* the title element's candidate, lines 83-85
TitleText(d) == StripSuffix(Strip(d.title.text))

extract_title_from_html(d) ==
    IF ~d.readable
    THEN SeparatorsToSpaces(SplitExtRoot(d.basename))
    ELSE IF d.title.present /\ d.title.text # <<>> /\ TitleText(d) # <<>>
    THEN TitleText(d)
    ELSE IF d.h1.present /\ d.h1.text # <<>>
    THEN Strip(d.h1.text)
    ELSE FilenameTitle(d.basename)

Absent == [present |-> FALSE, text |-> <<>>]
Element(text) == [present |-> TRUE, text |-> text]

\* the title elements, the first h1 elements and the file names of the inputs
TitleElements ==
    {Absent,
     Element(T_CELLS_BOTANY),
     Element(T_ONLY_BRAND),
     Element(<<" ", " ">>),
     Element(T_INTRO_PADDED)}

H1Elements ==
    {Absent,
     Element(<<>>),
     Element(<<" ">>),
     Element(T_INTRO_PADDED),
     Element(T_CELLS)}

Basenames == {F_INTRO_TO_CELLS, F_NUMBERED, F_LEADING_SEP}

TitleInputs ==
    [readable : BOOLEAN, title : TitleElements, h1 : H1Elements, basename : Basenames]

NoTitleInput ==
    [readable |-> FALSE, title |-> Absent, h1 |-> Absent, basename |-> <<>>]

(***************************************************************************)
(* The state of a run.                                                     *)
(***************************************************************************)
VARIABLES
    pc,               \* where the run is
    single_page,      \* args.single_page
    book_glob,        \* what glob resolves: the --files patterns, or book/*.html
    chapter_files,    \* main's parameter: [is_none, list]
    i,                \* the 1-based position of main's loop in chapter_files
    cur,              \* the chapter being processed: its images, tags, mapping
    stats,            \* the statistics accumulator
    all_images,       \* main's all_images
    chapters_info,    \* main's chapters_info
    chapters_content, \* main's chapters_content
    disk,             \* the files of the staging directory
    archive,          \* the archive at EPUB_FILE: [exists, members]
    manifest,         \* the manifest items of content.opf
    spine,            \* the spine idrefs of content.opf
    nav_points,       \* the navigation entries of toc.ncx
    exit_code,        \* -1 while running, then the process's exit status
    stale_start,      \* history: whether an earlier run left its files and its archive
    input_log,        \* history: what became of each input entry
    fetch_log,        \* history: each call of download_image and its result
    t_pc,             \* where a call of extract_title_from_html is
    t_input,          \* the file extract_title_from_html is called on
    t_result          \* what extract_title_from_html returned

main_vars ==
    <<pc, single_page, book_glob, chapter_files, i, cur, stats, all_images,
      chapters_info, chapters_content, disk, archive, manifest, spine, nav_points,
      exit_code, stale_start, input_log, fetch_log>>

title_vars == <<t_pc, t_input, t_result>>

vars == <<main_vars, title_vars>>

NoCur == [html_file |-> "", title |-> <<>>, images |-> <<>>, tags |-> <<>>, k |-> 0,
          image_mapping |-> {}]

ZeroStats ==
    [chapters |-> 0, images_found |-> 0, images_downloaded |-> 0, images_failed |-> 0,
     errors |-> <<>>]

\* the staging directory and the archive as the run finds them
InitialDisk == IF stale_start THEN StaleStaging ELSE {}

InitialArchive ==
    IF stale_start
    THEN [exists |-> TRUE, members |-> StaleArchive]
    ELSE [exists |-> FALSE, members |-> <<>>]

InitMain ==
    /\ pc = "cli"
    /\ single_page \in BOOLEAN
    /\ book_glob \in ResolvedLists
    /\ chapter_files = [is_none |-> TRUE, list |-> <<>>]
    /\ i = 0
    /\ cur = NoCur
    /\ stats = ZeroStats
    /\ all_images = {}
    /\ chapters_info = <<>>
    /\ chapters_content = <<>>
    /\ stale_start \in BOOLEAN
    /\ disk = InitialDisk
    /\ archive = InitialArchive
    /\ manifest = <<>>
    /\ spine = <<>>
    /\ nav_points = <<>>
    /\ exit_code = -1
    /\ input_log = <<>>
    /\ fetch_log = <<>>

Init ==
    /\ InitMain
    /\ t_pc = "idle"
    /\ t_input = NoTitleInput
    /\ t_result = <<>>

(***************************************************************************)
(* __main__: resolve the --files patterns, then call main.                 *)
(***************************************************************************)
CliResolve ==
    /\ pc = "cli"
    /\ \E files_given \in BOOLEAN :
         IF files_given
         THEN IF book_glob = <<>>
              THEN /\ pc' = "exit"
                   /\ exit_code' = 1
                   /\ UNCHANGED chapter_files
              ELSE /\ pc' = "main"
                   /\ chapter_files' = [is_none |-> FALSE, list |-> book_glob]
                   /\ UNCHANGED exit_code
         ELSE /\ pc' = "main"
              /\ UNCHANGED <<chapter_files, exit_code>>
    /\ UNCHANGED title_vars
    /\ UNCHANGED <<single_page, book_glob, i, cur, stats, all_images,
                   chapters_info, chapters_content, disk, archive, manifest, spine,
                   nav_points, stale_start, input_log, fetch_log>>

\* discover_html_files: the (basename, title) pairs of book/*.html
discover_html_files == book_glob

\* create_mimetype, create_container_xml, create_css
CreateStructure(d) ==
    WriteFile(WriteFile(WriteFile(d,
        File(ROOT_DIR, "mimetype", "", <<>>)),
        File(META_DIR, "container.xml", "", <<>>)),
        File(OEBPS_DIR, "styles.css", "", <<>>))

\* main going on after an empty discovery
NoInputExitNever == FALSE

\* whether main stops because discovery found nothing
NoInputExit == chapter_files.is_none /\ discover_html_files = <<>>

\* main, up to its loop: discovery, the fixed files, the empty collections
MainStart ==
    /\ pc = "main"
    /\ IF NoInputExit
       THEN /\ pc' = "exit"
            /\ exit_code' = 1
            /\ UNCHANGED <<chapter_files, i, disk>>
       ELSE /\ chapter_files' =
                   IF chapter_files.is_none
                   THEN [is_none |-> FALSE, list |-> discover_html_files]
                   ELSE chapter_files
            /\ disk' = CreateStructure(disk)
            /\ i' = 1
            /\ pc' = "loop"
            /\ UNCHANGED exit_code
    /\ all_images' = {}
    /\ chapters_info' = <<>>
    /\ chapters_content' = <<>>
    /\ UNCHANGED title_vars
    /\ UNCHANGED <<single_page, book_glob, cur, stats, archive, manifest,
                   spine, nav_points, stale_start, input_log, fetch_log>>

(***************************************************************************)
(* main's loop over chapter_files.                                         *)
(***************************************************************************)
Entry == chapter_files.list[i]

\* the loop body's except branch recording nothing
ProcessingErrorLost(st, html_file) == st

\* the except branch of main's loop body: the error is recorded
ProcessingError(st, html_file) ==
    [st EXCEPT !.errors = Append(@, [kind |-> "processing", subject |-> html_file])]

\* download_image with its except branch recording nothing
DownloadErrorLost(st, url) == st

\* the except branch of download_image: the error is recorded
DownloadError(st, url) ==
    [st EXCEPT !.errors = Append(@, [kind |-> "download", subject |-> UrlText(url)])]

\* the results urlopen and the write of the image can have for a URL
FetchResults(url) == IF url.scheme = "" THEN {FALSE} ELSE BOOLEAN

\* the history of the inputs: included, or skipped and why
Logged(outcome, cause) ==
    Append(input_log, [html_file |-> Entry.html_file, outcome |-> outcome, cause |-> cause])

\* one entry of chapter_files, up to the enumeration of its images
ChapterBegin ==
    /\ pc = "loop"
    /\ i <= Len(chapter_files.list)
    /\ \E file \in BookFiles :
         CASE file.kind = "missing" ->
                /\ i' = i + 1
                /\ input_log' = Logged("skipped", "missing")
                /\ UNCHANGED <<pc, cur, stats>>
           [] file.kind = "undecodable" ->
                /\ stats' = ProcessingError(stats, Entry.html_file)
                /\ i' = i + 1
                /\ input_log' = Logged("skipped", "read raised")
                /\ UNCHANGED <<pc, cur>>
           [] OTHER ->
                /\ cur' = [html_file |-> Entry.html_file,
                           title |-> Entry.title,
                           images |-> extract_image_urls(file.imgs),
                           tags |-> [j \in 1..Len(file.imgs) |-> SrcText(file.imgs[j].src)],
                           k |-> 1,
                           image_mapping |-> {}]
                /\ stats' = [stats EXCEPT !.images_found = @ + Len(file.imgs)]
                /\ pc' = "images"
                /\ UNCHANGED <<i, input_log>>
    /\ UNCHANGED title_vars
    /\ UNCHANGED <<single_page, book_glob, chapter_files, all_images,
                   chapters_info, chapters_content, disk, archive, manifest, spine,
                   nav_points, exit_code, stale_start, fetch_log>>

\* image_mapping[url] = safe_filename
MapPut(m, url, fname) == {e \in m : e.url # url} \cup {[url |-> url, file |-> fname]}

\* what a failed download leaves of the chapter being processed
AfterFailedFetch(c) == [c EXCEPT !.k = @ + 1]

\* what a successful download makes of the chapter being processed
AfterFetch(c, img, fname) ==
    [c EXCEPT !.k = @ + 1,
              !.image_mapping = MapPut(@, UrlText(img.url), fname),
              !.tags[img.tag] = "images/" \o fname]

\* one iteration of the loop over a chapter's images
ImageStep ==
    /\ pc = "images"
    /\ cur.k <= Len(cur.images)
    /\ LET img == cur.images[cur.k]
           fname == get_safe_filename(img.url, img.alt)
       IN  IF UrlparseRaises(img.url)
           THEN /\ stats' = ProcessingError(stats, cur.html_file)
                /\ cur' = NoCur
                /\ i' = i + 1
                /\ pc' = "loop"
                /\ input_log' = Logged("skipped", "urlparse raised")
                /\ UNCHANGED <<disk, fetch_log>>
           ELSE /\ \E ok \in FetchResults(img.url) :
                     /\ fetch_log' = Append(fetch_log,
                            [html_file |-> cur.html_file, tag |-> img.tag,
                             url |-> UrlText(img.url), file |-> fname, ok |-> ok])
                     /\ IF ok
                        THEN /\ disk' = WriteFile(disk,
                                    File(IMAGES_DIR, fname, UrlText(img.url), <<>>))
                             /\ stats' = [stats EXCEPT !.images_downloaded = @ + 1]
                             /\ cur' = AfterFetch(cur, img, fname)
                        ELSE /\ stats' = [DownloadError(stats, img.url)
                                              EXCEPT !.images_failed = @ + 1]
                             /\ cur' = AfterFailedFetch(cur)
                             /\ UNCHANGED disk
                /\ UNCHANGED <<pc, i, input_log>>
    /\ UNCHANGED title_vars
    /\ UNCHANGED <<single_page, book_glob, chapter_files, all_images,
                   chapters_info, chapters_content, archive, manifest, spine,
                   nav_points, exit_code, stale_start>>

\* a chapter's content as a section of a content document
Section(id, c) == [id |-> id, title |-> c.title, source |-> c.html_file, tags |-> c.tags]

\* the end of the loop body: the chapter is stored or written, then counted
ChapterEnd ==
    /\ pc = "images"
    /\ cur.k > Len(cur.images)
    /\ IF single_page
       THEN /\ chapters_content' = Append(chapters_content,
                   [title |-> cur.title, html_file |-> cur.html_file, tags |-> cur.tags])
            /\ UNCHANGED disk
       ELSE /\ disk' = WriteFile(disk,
                   File(OEBPS_DIR, ChapterFile(i), "", <<Section("", cur)>>))
            /\ UNCHANGED chapters_content
    /\ chapters_info' = Append(chapters_info,
           [html_file |-> cur.html_file, title |-> cur.title])
    /\ all_images' = all_images \cup {e.file : e \in cur.image_mapping}
    /\ stats' = [stats EXCEPT !.chapters = @ + 1]
    /\ input_log' = Logged("included", "")
    /\ cur' = NoCur
    /\ i' = i + 1
    /\ pc' = "loop"
    /\ UNCHANGED title_vars
    /\ UNCHANGED <<single_page, book_glob, chapter_files, archive, manifest,
                   spine, nav_points, exit_code, stale_start, fetch_log>>

(***************************************************************************)
(* The combined document, the manifest, the spine and the navigation.      *)
(***************************************************************************)
create_single_page_xhtml(contents) ==
    [n \in 1..Len(contents) |-> Section(SectionId(contents[n].title), contents[n])]

\* the manifest items of create_content_opf
ManifestItems(chapters, images, single) ==
    <<[id |-> "ncx", href |-> "toc.ncx"], [id |-> "css", href |-> "styles.css"]>>
    \o (IF single
        THEN <<[id |-> "content", href |-> "content.xhtml"]>>
        ELSE [n \in 1..Len(chapters) |->
                 [id |-> "chapter" \o ToString(n), href |-> ChapterFile(n)]])
    \o [n \in 1..Len(images) |->
           [id |-> "img" \o ToString(n), href |-> "images/" \o images[n]]]

\* the spine numbered from 0 where the manifest numbers from 1
SpineItemsZeroBased(chapters, single) ==
    IF single THEN <<"content">>
    ELSE [n \in 1..Len(chapters) |-> "chapter" \o ToString(n - 1)]

\* the spine items of create_content_opf
SpineItems(chapters, single) ==
    IF single THEN <<"content">>
    ELSE [n \in 1..Len(chapters) |-> "chapter" \o ToString(n)]

\* the navPoints of create_toc_ncx: src is file, or file#anchor
NavPoints(chapters, single) ==
    [n \in 1..Len(chapters) |->
        IF single
        THEN [playOrder |-> n, label |-> chapters[n].title,
              file |-> "content.xhtml", anchor |-> SectionId(chapters[n].title)]
        ELSE [playOrder |-> n, label |-> chapters[n].title,
              file |-> ChapterFile(n), anchor |-> ""]]

\* the image list taken from the successful downloads, one name per download
DownloadedPerFetch ==
    {[n \in 1..Len(SelectSeq(fetch_log, LAMBDA e : e.ok)) |->
         SelectSeq(fetch_log, LAMBDA e : e.ok)[n].file]}

\* the lists os.listdir(IMAGES_DIR) can return for the files of the directory
DownloadedImages == AllOrders(ListDir(disk, IMAGES_DIR))

\* main after its loop: the combined document, content.opf, toc.ncx
Finish ==
    /\ pc = "loop"
    /\ i > Len(chapter_files.list)
    /\ \E downloaded_images \in DownloadedImages :
         /\ manifest' = ManifestItems(chapters_info, downloaded_images, single_page)
         /\ spine' = SpineItems(chapters_info, single_page)
    /\ nav_points' = NavPoints(chapters_info, single_page)
    /\ LET combined ==
               IF single_page /\ chapters_content # <<>>
               THEN WriteFile(disk, File(OEBPS_DIR, "content.xhtml", "",
                                         create_single_page_xhtml(chapters_content)))
               ELSE disk
       IN  disk' = WriteFile(WriteFile(combined,
                       File(OEBPS_DIR, "content.opf", "", <<>>)),
                       File(OEBPS_DIR, "toc.ncx", "", <<>>))
    /\ pc' = "package"
    /\ UNCHANGED title_vars
    /\ UNCHANGED <<single_page, book_glob, chapter_files, i, cur, stats,
                   all_images, chapters_info, chapters_content, archive, exit_code,
                   stale_start, input_log, fetch_log>>

(***************************************************************************)
(* package_epub.                                                           *)
(***************************************************************************)
Member(name, stored) == [name |-> name, stored |-> stored, fresh |-> TRUE]

\* the files os.walk(OEBPS_DIR) visits
OebpsFiles == {f \in disk : f.dir \in {OEBPS_DIR, IMAGES_DIR}}

\* package_epub opening the archive it found to append, without removing it
package_epub_append(old, walk) ==
    [exists |-> TRUE,
     members |-> old.members
                 \o <<Member("mimetype", TRUE), Member("META-INF/container.xml", FALSE)>>
                 \o [n \in 1..Len(walk) |-> Member(RelPath(walk[n]), FALSE)]]

\* package_epub: the archive it leaves, given the one it found and the walk's order
package_epub(old, walk) ==
    [exists |-> TRUE,
     members |-> <<Member("mimetype", TRUE), Member("META-INF/container.xml", FALSE)>>
                 \o [n \in 1..Len(walk) |-> Member(RelPath(walk[n]), FALSE)]]

\* the end of main: the archive is packaged, the summary printed, the process ends
PackageAndReport ==
    /\ pc = "package"
    /\ \E walk \in WalkOrders(OebpsFiles) : archive' = package_epub(archive, walk)
    /\ pc' = "done"
    /\ exit_code' = 0
    /\ UNCHANGED title_vars
    /\ UNCHANGED <<single_page, book_glob, chapter_files, i, cur, stats,
                   all_images, chapters_info, chapters_content, disk, manifest, spine,
                   nav_points, stale_start, input_log, fetch_log>>

Next ==
    \/ CliResolve
    \/ MainStart
    \/ ChapterBegin
    \/ ImageStep
    \/ ChapterEnd
    \/ Finish
    \/ PackageAndReport

Spec == Init /\ [][Next]_vars

(***************************************************************************)
(* One call of extract_title_from_html, on each of the inputs.             *)
(***************************************************************************)
InitTitle ==
    /\ pc = "off"
    /\ single_page = FALSE
    /\ book_glob = <<>>
    /\ chapter_files = [is_none |-> TRUE, list |-> <<>>]
    /\ i = 0
    /\ cur = NoCur
    /\ stats = ZeroStats
    /\ all_images = {}
    /\ chapters_info = <<>>
    /\ chapters_content = <<>>
    /\ stale_start = FALSE
    /\ disk = {}
    /\ archive = [exists |-> FALSE, members |-> <<>>]
    /\ manifest = <<>>
    /\ spine = <<>>
    /\ nav_points = <<>>
    /\ exit_code = -1
    /\ input_log = <<>>
    /\ fetch_log = <<>>
    /\ t_pc = "call"
    /\ t_input \in TitleInputs
    /\ t_result = <<>>

ExtractTitle ==
    /\ t_pc = "call"
    /\ t_result' = extract_title_from_html(t_input)
    /\ t_pc' = "done"
    /\ UNCHANGED t_input
    /\ UNCHANGED main_vars

NextTitle == ExtractTitle

SpecTitle == InitTitle /\ [][NextTitle]_vars

(***************************************************************************)
(* The image loop of main on one chapter with two img elements: main has   *)
(* read the chapter and enumerated its images, and names and fetches them.  *)
(***************************************************************************)
InitNaming ==
    /\ pc = "images"
    /\ single_page = FALSE
    /\ book_glob = <<[html_file |-> HtmlName(1), title |-> <<"C">>]>>
    /\ chapter_files = [is_none |-> FALSE, list |-> book_glob]
    /\ i = 1
    /\ \E imgs \in NamePairs :
         cur = [html_file |-> HtmlName(1),
                title |-> <<"C">>,
                images |-> extract_image_urls(imgs),
                tags |-> [j \in 1..Len(imgs) |-> SrcText(imgs[j].src)],
                k |-> 1,
                image_mapping |-> {}]
    /\ stats = [ZeroStats EXCEPT !.images_found = Len(cur.images)]
    /\ all_images = {}
    /\ chapters_info = <<>>
    /\ chapters_content = <<>>
    /\ stale_start = FALSE
    /\ disk = CreateStructure({})
    /\ archive = [exists |-> FALSE, members |-> <<>>]
    /\ manifest = <<>>
    /\ spine = <<>>
    /\ nav_points = <<>>
    /\ exit_code = -1
    /\ input_log = <<>>
    /\ fetch_log = <<>>
    /\ t_pc = "idle"
    /\ t_input = NoTitleInput
    /\ t_result = <<>>

NextNaming == ImageStep

SpecNaming == InitNaming /\ [][NextNaming]_vars

(***************************************************************************)
(* Properties of the pipeline.                                             *)
(***************************************************************************)
Finished == pc = "done"
Assembled == pc \in {"package", "done"}

\* a step in which download_image was called and returned False
FailedFetchStep ==
    /\ Len(fetch_log') = Len(fetch_log) + 1
    /\ ~fetch_log'[Len(fetch_log')].ok

\* a step in which main gave up an input entry
SkipStep ==
    /\ Len(input_log') = Len(input_log) + 1
    /\ input_log'[Len(input_log')].outcome = "skipped"

LogOf(html_file) == CHOOSE e \in Range(input_log) : e.html_file = html_file

Included == {n \in 1..Len(input_log) : input_log[n].outcome = "included"}

\* the href a manifest entry gives a file of OEBPS/
Href(f) == IF f.dir = IMAGES_DIR THEN "images/" \o f.name ELSE f.name

ManifestEntriesFor(href) == {j \in 1..Len(manifest) : manifest[j].href = href}

DistinctIds(items) ==
    \A a, b \in 1..Len(items) : items[a].id = items[b].id => a = b

\* C1, step by step: a failed fetch leaves every img src of the chapter as it
\* was, appends exactly one download error, adds one to images_failed and
\* nothing to images_downloaded, and the loop goes on to the next image
C1_FailedFetchStep ==
    FailedFetchStep =>
        /\ cur'.tags = cur.tags
        /\ stats'.errors =
               Append(stats.errors,
                      [kind |-> "download", subject |-> fetch_log'[Len(fetch_log')].url])
        /\ stats'.images_failed = stats.images_failed + 1
        /\ stats'.images_downloaded = stats.images_downloaded
        /\ cur'.images = cur.images
        /\ cur'.k = cur.k + 1
        /\ pc' = "images"
        /\ i' = i

\* C1, at the end: whenever a fetch failed, every input entry was still
\* handled, and the chapter of the failed fetch is in the output unless one of
\* its URLs could not be parsed
C1_RunContinues ==
    Finished =>
        \A n \in 1..Len(fetch_log) :
            ~fetch_log[n].ok =>
                /\ Len(input_log) = Len(chapter_files.list)
                /\ LET e == LogOf(fetch_log[n].html_file)
                   IN  \/ /\ e.outcome = "included"
                          /\ \E k \in 1..Len(chapters_info) :
                                 chapters_info[k].html_file = e.html_file
                       \/ e.cause = "urlparse raised"

C2_SameOrdinalEverywhere ==
    (Finished /\ ~single_page) =>
        \A k \in 1..Len(chapters_info) :
            \E f \in disk :
                /\ f.dir = OEBPS_DIR
                /\ f.fresh
                /\ Len(f.body) = 1
                /\ f.body[1].source = chapters_info[k].html_file
                /\ nav_points[k].file = f.name
                /\ \E j \in 1..Len(manifest) :
                       manifest[j].id = spine[k] /\ manifest[j].href = f.name

\* C3: after packaging from an empty staging directory, every file a manifest
\* entry references was written in this run and is a member of the archive
C3_ManifestFilesPackaged ==
    (Finished /\ ~stale_start) =>
        \A j \in 1..Len(manifest) :
            \E f \in OebpsFiles :
                /\ Href(f) = manifest[j].href
                /\ f.fresh
                /\ \E m \in 1..Len(archive.members) :
                       archive.members[m].name = RelPath(f)

\* C4: the archive package_epub leaves has mimetype as its first member,
\* stored uncompressed, container.xml and every OEBPS file after it, and no
\* member of an archive that was at the path before
C4_ArchiveLayout ==
    Finished =>
        LET ms == archive.members
        IN  /\ archive.exists
            /\ Len(ms) >= 2
            /\ ms[1].name = "mimetype"
            /\ ms[1].stored
            /\ \A j \in 2..Len(ms) : ms[j].name # "mimetype"
            /\ \E j \in 2..Len(ms) : ms[j].name = "META-INF/container.xml"
            /\ \A f \in OebpsFiles : \E j \in 2..Len(ms) : ms[j].name = RelPath(f)
            /\ \A j \in 1..Len(ms) : ms[j].fresh

\* C4's case: an archive was at the target path and the run packaged over it
C4_Witness ==
    /\ Finished
    /\ stale_start
    /\ Len(chapters_info) >= 1
    /\ Len(archive.members) > 4

\* image lists in which a name repeats
RepeatedImageLists == {<<"a.png", "a.png">>, <<"a.png", "b.gif", "a.png">>}

\* C5: manifest ids are pairwise distinct (also for image lists that repeat a
\* name), every spine idref is the id of exactly one manifest entry, and every
\* file a navigation entry targets is the href of a manifest entry
C5_ManifestSpineNavConsistent ==
    Assembled =>
        /\ DistinctIds(manifest)
        /\ \A imgs \in RepeatedImageLists :
               DistinctIds(ManifestItems(chapters_info, imgs, single_page))
        /\ \A k \in 1..Len(spine) :
               Cardinality({j \in 1..Len(manifest) : manifest[j].id = spine[k]}) = 1
        /\ \A k \in 1..Len(nav_points) :
               ManifestEntriesFor(nav_points[k].file) # {}

\* C5's case: two chapters and two images in multi-page mode
C5_Witness ==
    /\ Finished
    /\ ~single_page
    /\ Len(spine) = 2
    /\ Len(nav_points) = 2
    /\ Len(manifest) >= 6

\* C6: when two image references resolve to one local filename and at least
\* one of them was fetched, the manifest has exactly one entry images/<name>
C6_OneEntryPerFilename ==
    Assembled =>
        \A a, b \in 1..Len(fetch_log) :
            (a # b /\ fetch_log[a].file = fetch_log[b].file
                   /\ (fetch_log[a].ok \/ fetch_log[b].ok)) =>
                Cardinality(ManifestEntriesFor("images/" \o fetch_log[a].file)) = 1

\* C6's case: two chapters fetched different URLs under one filename
C6_Witness ==
    /\ Finished
    /\ \E a, b \in 1..Len(fetch_log) :
           /\ fetch_log[a].html_file # fetch_log[b].html_file
           /\ fetch_log[a].url # fetch_log[b].url
           /\ fetch_log[a].file = fetch_log[b].file
           /\ fetch_log[a].ok
           /\ fetch_log[b].ok

\* C7: in single-page mode with a processed chapter, one combined document is
\* written with one section per chapter in order, and the k-th navigation entry
\* targets content.xhtml#<id> where <id> is the id of the k-th section only
C7_AnchorsTargetTheirSections ==
    (Finished /\ single_page /\ Len(chapters_info) >= 1) =>
        LET docs == {f \in disk : f.dir = OEBPS_DIR /\ f.name = "content.xhtml" /\ f.fresh}
        IN  /\ Cardinality(docs) = 1
            /\ \A f \in docs :
                   /\ Len(f.body) = Len(chapters_info)
                   /\ \A k \in 1..Len(chapters_info) :
                          /\ f.body[k].source = chapters_info[k].html_file
                          /\ nav_points[k].file = "content.xhtml"
                          /\ {j \in 1..Len(f.body) : f.body[j].id = nav_points[k].anchor}
                                 = {k}

\* C8 as stated: every input main left out has an error message in the
\* statistics, was not counted as a chapter, and the later inputs were handled
C8_EverySkipRecorded ==
    Finished =>
        /\ Len(input_log) = Len(chapter_files.list)
        /\ stats.chapters = Cardinality(Included)
        /\ \A n \in 1..Len(input_log) :
               input_log[n].outcome = "skipped" =>
                   \E m \in 1..Len(stats.errors) :
                       /\ stats.errors[m].kind = "processing"
                       /\ stats.errors[m].subject = input_log[n].html_file

\* C8, step by step: giving up an entry whose processing raised appends one
\* processing error for it; giving up an entry whose file is missing leaves
\* the statistics as they were; neither counts a chapter, and the loop moves on
C8_SkipStep ==
    SkipStep =>
        LET e == input_log'[Len(input_log')]
        IN  /\ e.html_file = chapter_files.list[i].html_file
            /\ IF e.cause = "missing"
               THEN stats' = stats
               ELSE stats'.errors =
                        Append(stats.errors,
                               [kind |-> "processing", subject |-> e.html_file])
            /\ stats'.chapters = stats.chapters
            /\ i' = i + 1
            /\ pc' = "loop"

\* C8, at the end: every input entry was handled, in order, and the chapters
\* counter counts the included ones only
C8_AllHandled ==
    Assembled =>
        /\ Len(input_log) = Len(chapter_files.list)
        /\ \A n \in 1..Len(input_log) :
               input_log[n].html_file = chapter_files.list[n].html_file
        /\ stats.chapters = Cardinality(Included)

\* C8 (amended): an input whose processing raised gets an error message in the
\* statistics, an input whose file is missing gets none (only a printed
\* warning); in both cases it is not counted and every later input is handled
C8_SkipsRecordedWhenRaised == [][C8_SkipStep]_vars /\ []C8_AllHandled

\* C8's case: one input was missing and another raised
C8_Witness ==
    /\ Finished
    /\ \E n \in 1..Len(input_log) : input_log[n].cause = "missing"
    /\ \E n \in 1..Len(input_log) : input_log[n].cause = "read raised"

\* C9: when no input file is found or resolved, the run ends with exit status
\* 1 and, until then, writes no staging file, fetches no image, builds no
\* manifest and leaves the archive at the target path as it was
C9_NoInputNoOutput ==
    book_glob = <<>> =>
        /\ pc \in {"cli", "main", "exit"}
        /\ exit_code = IF pc = "exit" THEN 1 ELSE -1
        /\ disk = InitialDisk
        /\ archive = InitialArchive
        /\ fetch_log = <<>>
        /\ manifest = <<>>
        /\ nav_points = <<>>

\* C9's case: discovery found nothing and main ended the run, with an earlier
\* run's staging files and archive in place
C9_Witness ==
    /\ pc = "exit"
    /\ exit_code = 1
    /\ book_glob = <<>>
    /\ stale_start

\* the hrefs of the manifest's image entries
ManifestImageHrefs ==
    {manifest[n].href :
        n \in {m \in 1..Len(manifest) :
                 \E k \in 1..Len(manifest) : manifest[m].id = "img" \o ToString(k)}}

\* the local filenames fetched successfully in this run for chapters that
\* were included in the output
FetchedForIncluded ==
    {e.file : e \in {x \in Range(fetch_log) :
                        /\ x.ok
                        /\ \E n \in Included : input_log[n].html_file = x.html_file}}

\* C12: the image entries of the final manifest are exactly the local
\* filenames fetched successfully during this run for the chapters that were
\* included: none names a file an earlier run left in the images directory,
\* none names an image fetched for a chapter that was then skipped
C12_ManifestImagesAreThisRuns ==
    Assembled => ManifestImageHrefs = {"images/" \o f : f \in FetchedForIncluded}

\* the calls of download_image that returned True, and those that returned False
FetchedOk == SelectSeq(fetch_log, LAMBDA e : e.ok)
FetchedFailed == SelectSeq(fetch_log, LAMBDA e : ~e.ok)

\* C13: when main reaches the summary, having started from zeroed statistics,
\* images_found = images_downloaded + images_failed, images_downloaded being
\* the number of image references rewritten and images_failed the number left
\* as they were, also when a chapter's processing raised after its images were
\* enumerated; and no image reference was fetched more than once
C13_FoundIsDownloadedPlusFailed ==
    Finished =>
        /\ stats.images_found = stats.images_downloaded + stats.images_failed
        /\ stats.images_downloaded = Len(FetchedOk)
        /\ stats.images_failed = Len(FetchedFailed)
        /\ \A a, b \in 1..Len(fetch_log) :
               (fetch_log[a].html_file = fetch_log[b].html_file
                    /\ fetch_log[a].tag = fetch_log[b].tag) => a = b

(***************************************************************************)
(* Properties of extract_title_from_html.                                  *)
(***************************************************************************)
\* the first non-empty sequence of cs, or the last one
RECURSIVE FirstNonEmpty(_)
FirstNonEmpty(cs) ==
    IF Len(cs) = 1 \/ cs[1] # <<>> THEN cs[1] ELSE FirstNonEmpty(Tail(cs))

\* the candidates in their order: the title element's text without the brand
\* suffix, the first h1's trimmed text, the title made from the file name
TitleCandidates(d) ==
    <<IF d.title.present THEN StripSuffix(Strip(d.title.text)) ELSE <<>>,
      IF d.h1.present THEN Strip(d.h1.text) ELSE <<>>,
      FilenameTitle(d.basename)>>

\* C10: for a file that can be read and parsed, extract_title_from_html
\* returns the first non-empty candidate (title element, then first h1, then
\* file name), and the result has no leading or trailing whitespace
C10_FirstNonEmptyCandidate ==
    (t_pc = "done" /\ t_input.readable) =>
        /\ t_result = FirstNonEmpty(TitleCandidates(t_input))
        /\ Strip(t_result) = t_result

(***************************************************************************)
(* Properties of get_safe_filename and download_image.                     *)
(***************************************************************************)
\* the img element a call of download_image was made for
RefOf(e) == cur.images[e.tag]

\* the pairs of calls made for the chapter in hand, earlier then later, for
\* two distinct URLs given the same non-empty alt text
SameAltCalls ==
    {p \in (1..Len(fetch_log)) \X (1..Len(fetch_log)) :
        /\ p[1] < p[2]
        /\ fetch_log[p[1]].html_file = cur.html_file
        /\ fetch_log[p[2]].html_file = cur.html_file
        /\ fetch_log[p[1]].url # fetch_log[p[2]].url
        /\ RefOf(fetch_log[p[1]]).alt = RefOf(fetch_log[p[2]]).alt
        /\ RefOf(fetch_log[p[1]]).alt # <<>>}

\* the files of the images directory with the name a call was given
StoredAs(e) == {f \in disk : f.dir = IMAGES_DIR /\ f.name = e.file}

\* the two calls were given one filename, and after the later one succeeded
\* the one file of that name holds the later URL's bytes
Collide(p) ==
    /\ fetch_log[p[1]].file = fetch_log[p[2]].file
    /\ (fetch_log[p[2]].ok /\ p[2] = Len(fetch_log)) =>
           /\ Cardinality(StoredAs(fetch_log[p[2]])) = 1
           /\ \A f \in StoredAs(fetch_log[p[2]]) : f.origin = fetch_log[p[2]].url

\* C11 as stated: any two distinct image URLs given the same non-empty alt
\* text get the same local filename, so that the later successful download
\* overwrites the earlier one's bytes under that name
C11_SameAltCollides == \A p \in SameAltCalls : Collide(p)

\* C11: any two distinct image URLs given the same non-empty alt text, and
\* whose paths give the same extension once an extension outside the allowed
\* ones has become .jpg, get the same local filename, so that the later
\* successful download overwrites the earlier one's bytes under that name
C11_SameAltSameExtCollide ==
    \A p \in SameAltCalls :
        SafeExt(RefOf(fetch_log[p[1]]).url) = SafeExt(RefOf(fetch_log[p[2]]).url)
            => Collide(p)

\* C11's case: two distinct URLs with the same alt text and the same extension
\* were both fetched successfully, the second over the first
C11_Witness ==
    /\ Len(fetch_log) = 2
    /\ <<1, 2>> \in SameAltCalls
    /\ SafeExt(RefOf(fetch_log[1]).url) = SafeExt(RefOf(fetch_log[2]).url)
    /\ RefOf(fetch_log[1]).url.ext # RefOf(fetch_log[2]).url.ext
    /\ fetch_log[1].ok
    /\ fetch_log[2].ok

=============================================================================
